---- MODULE Spec2Model ----
(***************************************************************************)
(* A model of png_steganography.py: the textbook modular-exponentiation    *)
(* cipher (generate_keypair, encrypt, decrypt, text2ints, ints2text,       *)
(* find_blocksize, xgcd, gcd) and the least-significant-bit embedding and  *)
(* extraction of the encrypted message (hide_message, extract_message).    *)
(*                                                                         *)
(* Texts are sequences of Unicode code points, byte strings are sequences  *)
(* of 0..255, bit strings are sequences of 0/1.  An image file is a record *)
(* [mode, width, height, data] where data is what PIL's getdata() yields:  *)
(* the pixels in raster order, each a tuple of 3 (RGB) or 4 (RGBA) channel *)
(* values.                                                                 *)
(***************************************************************************)
EXTENDS Integers, Sequences, FiniteSets, TLC

VARIABLES
    pc,          \* where the program is
    arg_a,       \* xgcd / gcd: first argument
    arg_b,       \* xgcd / gcd: second argument
    xgcd_out,    \* xgcd(arg_a, arg_b)
    gcd_out,     \* gcd(arg_a, arg_b)
    p,           \* generate_keypair: first prime
    q,           \* generate_keypair: second prime
    n,           \* generate_keypair: local n
    phi,         \* generate_keypair: local phi
    e,           \* generate_keypair: local e, the candidate exponent
    pubkey,      \* the public key (e, n)
    seckey,      \* the private key (d, n)
    message,     \* the text to encrypt or hide
    ciphertext,  \* encrypt(pubkey, message)
    plaintext,   \* decrypt(seckey, ciphertext)
    png,         \* hide_message: the carrier image file
    bit_len,     \* hide_message: bits altered per channel
    bit_string,  \* hide_message: the bitstream
    bits_needed, \* hide_message: local bits_needed
    avai_bits,   \* hide_message: local avai_bits
    img_data,    \* hide_message: the pixel array being altered
    index,       \* hide_message: the bitstream cursor
    i,           \* hide_message: the pixel loop variable
    overflow,    \* hide_message: the overflow reported on failure
    output,      \* the image file written by hide_message
    seckey_in,   \* extract_message: the key given by the caller
    bytes_len,   \* extract_message: bits read per channel
    secret_bits, \* extract_message: the bits read back
    extracted    \* extract_message: the outcome

arithVars == <<arg_a, arg_b, xgcd_out, gcd_out>>
keyVars == <<p, q, n, phi, e, pubkey, seckey>>
cipherVars == <<message, ciphertext, plaintext>>
hideVars == <<png, bit_len, bit_string, bits_needed, avai_bits, img_data, index, i, overflow, output>>
extractVars == <<seckey_in, bytes_len, secret_bits, extracted>>
vars == <<pc, arithVars, keyVars, cipherVars, hideVars, extractVars>>

(***************************************************************************)
(* Bounds of the model.                                                    *)
(***************************************************************************)
\* xgcd and gcd are applied to every pair of integers in -MaxArg..MaxArg.
MaxArg == 6
\* Texts have at most MaxTextLen code points.
MaxTextLen == 2

\* The code points texts are made of: NUL, 'A', and U+00E9 (two UTF-8 bytes).
Alphabet == {0, 65, 233}
Texts == UNION {[1..len -> Alphabet] : len \in 0..MaxTextLen}

(***************************************************************************)
(* Python integer arithmetic.                                              *)
(***************************************************************************)
\* a // b: floor division.
FloorDiv(x, y) == x \div y
\* a % b: the remainder has the sign of the divisor.
PyMod(x, y) == x - y * FloorDiv(x, y)

Min(x, y) == IF x <= y THEN x ELSE y
CeilDiv(x, y) == (x + y - 1) \div y

\* pow(base, exponent, modulus) for exponent >= 0, by repeated squaring.
RECURSIVE pow(_, _, _)
pow(base, exponent, modulus) ==
    IF exponent = 0 THEN PyMod(1, modulus)
    ELSE LET half == pow(base, exponent \div 2, modulus)
             sq == PyMod(half * half, modulus)
         IN  IF exponent % 2 = 1 THEN PyMod(sq * PyMod(base, modulus), modulus) ELSE sq

(***************************************************************************)
(* gcd and xgcd.                                                           *)
(***************************************************************************)
RECURSIVE gcd(_, _)
gcd(x, y) == IF y = 0 THEN x ELSE gcd(y, PyMod(x, y))

\* xgcd with the quotient truncated toward zero instead of floored.
RECURSIVE xgcd_trunc(_, _)
xgcd_trunc(x, y) ==
    IF y = 0 THEN <<x, 1, 0>>
    ELSE LET r == xgcd_trunc(y, PyMod(x, y))
             qt == IF (x < 0) = (y < 0) THEN x \div y ELSE -((-x) \div y)
         IN  <<r[1], r[3], r[2] - r[3] * qt>>

RECURSIVE xgcd(_, _)
xgcd(x, y) ==
    IF y = 0 THEN <<x, 1, 0>>
    ELSE LET r == xgcd(y, PyMod(x, y))
         IN  <<r[1], r[3], r[2] - r[3] * FloorDiv(x, y)>>

(***************************************************************************)
(* Text, bytes and blocks.                                                 *)
(***************************************************************************)
RECURSIVE Concat(_)
Concat(seqs) == IF seqs = <<>> THEN <<>> ELSE Head(seqs) \o Concat(Tail(seqs))

\* str.encode() of one code point: its UTF-8 bytes.
encode_char(c) ==
    IF c < 128 THEN <<c>>
    ELSE IF c < 2048 THEN <<192 + (c \div 64), 128 + (c % 64)>>
    ELSE IF c < 65536
         THEN <<224 + (c \div 4096), 128 + ((c \div 64) % 64), 128 + (c % 64)>>
    ELSE <<240 + (c \div 262144), 128 + ((c \div 4096) % 64),
           128 + ((c \div 64) % 64), 128 + (c % 64)>>

\* str.encode(): UTF-8.
encode(text) == Concat([k \in 1..Len(text) |-> encode_char(text[k])])

IsCont(bs, k) == k <= Len(bs) /\ bs[k] >= 128 /\ bs[k] <= 191

\* The length of the well-formed UTF-8 sequence at the head of bs, 0 if there is none.
utf8_len(bs) ==
    LET b0 == bs[1]
        b1 == IF Len(bs) >= 2 THEN bs[2] ELSE 0
        ok3 == IsCont(bs, 2) /\ IsCont(bs, 3) /\ (b0 = 224 => b1 >= 160) /\ (b0 = 237 => b1 <= 159)
        ok4 == IsCont(bs, 2) /\ IsCont(bs, 3) /\ IsCont(bs, 4)
               /\ (b0 = 240 => b1 >= 144) /\ (b0 = 244 => b1 <= 143)
    IN  IF b0 < 128 THEN 1
        ELSE IF b0 >= 194 /\ b0 <= 223 THEN (IF IsCont(bs, 2) THEN 2 ELSE 0)
        ELSE IF b0 >= 224 /\ b0 <= 239 THEN (IF ok3 THEN 3 ELSE 0)
        ELSE IF b0 >= 240 /\ b0 <= 244 THEN (IF ok4 THEN 4 ELSE 0)
        ELSE 0

\* The code point of the well-formed sequence of length len at the head of bs.
utf8_point(bs, len) ==
    IF len = 1 THEN bs[1]
    ELSE IF len = 2 THEN (bs[1] - 192) * 64 + (bs[2] - 128)
    ELSE IF len = 3 THEN (bs[1] - 224) * 4096 + (bs[2] - 128) * 64 + (bs[3] - 128)
    ELSE (bs[1] - 240) * 262144 + (bs[2] - 128) * 4096 + (bs[3] - 128) * 64 + (bs[4] - 128)

\* bytes.decode(): strict UTF-8; ok is FALSE where Python raises UnicodeDecodeError.
RECURSIVE decode(_)
decode(bs) ==
    IF bs = <<>> THEN [ok |-> TRUE, text |-> <<>>]
    ELSE LET len == utf8_len(bs)
         IN  IF len = 0 THEN [ok |-> FALSE, text |-> <<>>]
             ELSE LET rest == decode(SubSeq(bs, len + 1, Len(bs)))
                  IN  [ok |-> rest.ok,
                       text |-> IF rest.ok THEN <<utf8_point(bs, len)>> \o rest.text ELSE <<>>]

\* int.from_bytes(bs, "big").
RECURSIVE from_bytes(_)
from_bytes(bs) ==
    IF bs = <<>> THEN 0 ELSE from_bytes(SubSeq(bs, 1, Len(bs) - 1)) * 256 + bs[Len(bs)]

\* v.to_bytes(m, "big"), for 0 <= v < 256^m.
RECURSIVE to_bytes(_, _)
to_bytes(v, m) == IF m = 0 THEN <<>> ELSE to_bytes(v \div 256, m - 1) \o <<v % 256>>

\* Whether v.to_bytes(m, "big") raises OverflowError.
RECURSIVE overflows(_, _)
overflows(v, m) == IF v < 0 THEN TRUE ELSE IF m = 0 THEN v > 0 ELSE overflows(v \div 256, m - 1)

\* bs.split(b"\x00")[0]: the bytes before the first zero byte.
RECURSIVE until_nul(_)
until_nul(bs) ==
    IF bs = <<>> \/ bs[1] = 0 THEN <<>> ELSE <<bs[1]>> \o until_nul(Tail(bs))

text2ints(text, m) ==
    LET t0 == encode(text)
        t == t0 \o [k \in 1..PyMod(m - PyMod(Len(t0), m), m) |-> 0]
    IN  [k \in 1..(Len(t) \div m) |-> from_bytes(SubSeq(t, (k - 1) * m + 1, k * m))]

Ok(text) == [status |-> "ok", text |-> text]
Failed(why) == [status |-> why, text |-> <<>>]

ints2text(ints, m) ==
    IF \E k \in 1..Len(ints) : overflows(ints[k], m)
    THEN Failed("OverflowError")
    ELSE LET joined == Concat([k \in 1..Len(ints) |-> to_bytes(ints[k], m)])
             dec == decode(until_nul(joined))
         IN  IF dec.ok THEN Ok(dec.text) ELSE Failed("UnicodeDecodeError")

\* find_blocksize with the loop testing b bytes instead of b + 1.
RECURSIVE find_blocksize_from_tight(_, _)
find_blocksize_from_tight(modulus, blk) ==
    IF modulus \div (2 ^ (8 * (blk - 1))) >= 256
    THEN find_blocksize_from_tight(modulus, blk + 1)
    ELSE blk
find_blocksize_tight(modulus) == find_blocksize_from_tight(modulus, 1)

\* The loop of find_blocksize, entered with b = blk. The test
\* pow(2, 8*(b+1)) - 1 < n is n >= 256 * 2^(8*b), written with a quotient so that
\* no power above 2^24 is computed.
RECURSIVE find_blocksize_from(_, _)
find_blocksize_from(modulus, blk) ==
    IF modulus \div (2 ^ (8 * blk)) >= 256 THEN find_blocksize_from(modulus, blk + 1) ELSE blk

find_blocksize(modulus) == find_blocksize_from(modulus, 1)

encrypt(key, text) ==
    LET blk == find_blocksize(key[2])
        ints == text2ints(text, blk)
    IN  [k \in 1..Len(ints) |-> pow(ints[k], key[1], key[2])]

decrypt(key, ints) ==
    LET blk == find_blocksize(key[2])
    IN  ints2text([k \in 1..Len(ints) |-> pow(ints[k], key[1], key[2])], blk)

(***************************************************************************)
(* generate_keypair.                                                       *)
(***************************************************************************)
\* random.randint(lo, hi): the values it can return; none when lo > hi (ValueError).
randint(lo, hi) == lo..hi

\* The loop test with the comparison inverted.
loop_continues_inverted(ev, phiv) == gcd(ev, phiv) = 1
\* The test of the retry loop: while gcd(e, phi) != 1.
loop_continues(ev, phiv) == gcd(ev, phiv) # 1

\* The keys without the reduction of d modulo phi.
keypair_unreduced(ev, phiv, nv) == <<<<ev, nv>>, <<xgcd(ev, phiv)[2], nv>>>>
\* d = xgcd(e, phi)[1] % phi; return (e, n), (d, n).
keypair(ev, phiv, nv) == <<<<ev, nv>>, <<PyMod(xgcd(ev, phiv)[2], phiv), nv>>>>

NoKey == <<0, 0>>
(***************************************************************************)
(* Bit strings.                                                            *)
(***************************************************************************)
\* bin(v)[2:]: the binary digits of v >= 0, most significant first.
RECURSIVE bin(_)
bin(v) == IF v < 2 THEN <<v>> ELSE bin(v \div 2) \o <<v % 2>>

\* s.zfill(width): zeros on the left up to width digits.
zfill(bits, width) ==
    IF Len(bits) >= width THEN bits ELSE [k \in 1..(width - Len(bits)) |-> 0] \o bits

\* int(bits, 2) for a non-empty bit string.
RECURSIVE int2(_)
int2(bits) ==
    IF Len(bits) = 1 THEN bits[1] ELSE int2(SubSeq(bits, 1, Len(bits) - 1)) * 2 + bits[Len(bits)]

\* int(bits, 2) % modulus, computed digit by digit.
RECURSIVE int2mod(_, _)
int2mod(bits, modulus) ==
    IF Len(bits) = 1 THEN PyMod(bits[1], modulus)
    ELSE PyMod(int2mod(SubSeq(bits, 1, Len(bits) - 1), modulus) * 2 + bits[Len(bits)], modulus)

\* s[lo:hi] for 0 <= lo.
Slice(s, lo, hi) == SubSeq(s, lo + 1, Min(hi, Len(s)))

\* The width of an encrypted block in the bitstream.
BlockBits == 32
\* "$EOT$" as code points.
Sentinel == <<36, 69, 79, 84, 36>>
\* "".join(format(ord(c), '08b') for c in "$EOT$").
SentinelBits == Concat([k \in 1..Len(Sentinel) |-> zfill(bin(Sentinel[k]), 8)])

\* Lines 48-49: the blocks as 32-bit strings, then the sentinel.
make_bit_string(ints) ==
    Concat([k \in 1..Len(ints) |-> zfill(bin(ints[k]), BlockBits)]) \o SentinelBits

\* s.find(pat): the offset of the first occurrence of pat in s, -1 if none.
find(s, pat) ==
    LET found == {at \in 0..(Len(s) - Len(pat)) : SubSeq(s, at + 1, at + Len(pat)) = pat}
    IN  IF found = {} THEN -1 ELSE CHOOSE at \in found : \A other \in found : at <= other

\* s.split(pat)[0].
split_first(s, pat) ==
    LET at == find(s, pat)
    IN  IF at < 0 THEN s ELSE SubSeq(s, 1, at)

(***************************************************************************)
(* Images.                                                                 *)
(***************************************************************************)
\* 4 if image.mode == "RGBA" else 3.
channels_of(image) == IF image.mode = "RGBA" THEN 4 ELSE 3

\* np.array(list(image.getdata())).size: the number of channel values.
array_size(data) == IF data = <<>> THEN 0 ELSE Len(data) * Len(data[1])

\* img_data.reshape((height, width, channels)).
reshape(data, height, width) ==
    [r \in 1..height |-> [c \in 1..width |-> data[(r - 1) * width + c]]]

\* PIL.Image.fromarray(array.astype("uint8"), mode), then save: the file written.
fromarray(array, mode) ==
    [mode |-> mode,
     width |-> Len(array[1]),
     height |-> Len(array),
     data |-> Concat([r \in 1..Len(array) |->
                 [c \in 1..Len(array[r]) |-> [j \in 1..Len(array[r][c]) |-> array[r][c][j] % 256]]])]

\* Line 52: int((pixels * bit_len) / 4 * 3 if channels == 4 else pixels * bit_len).
available_bits(pixels, k, channels) ==
    IF channels = 4 THEN (3 * (pixels * k)) \div 4 ELSE pixels * k

\* Line 58 with >= for >.
too_large_inclusive(needed, available) == needed >= available
\* Line 58: bits_needed > avai_bits.
too_large(needed, available) == needed > available

\* Lines 69-70 with the mask one bit too wide.
set_low_bits_wide(v, k, chunk) == (v \div (2 ^ (k + 1))) * (2 ^ (k + 1)) + int2(chunk)
\* Lines 69-70: (v & ~(2 ** bit_len - 1)) | int(chunk, 2).
set_low_bits(v, k, chunk) == (v \div (2 ^ k)) * (2 ^ k) + int2(chunk)

\* The channels of a pixel the loops visit: range(0, 3).
UsableChannels == 3

\* Lines 67-71 with the cursor advanced by one bit per channel.
RECURSIVE hide_channels_by_one(_, _, _, _, _, _)
hide_channels_by_one(pixel, j, k, bits, needed, idx) ==
    IF j > UsableChannels THEN [pixel |-> pixel, index |-> idx]
    ELSE IF idx < needed
         THEN hide_channels_by_one(
                  [pixel EXCEPT ![j] = set_low_bits(@, k, Slice(bits, idx, idx + k))],
                  j + 1, k, bits, needed, idx + 1)
         ELSE hide_channels_by_one(pixel, j + 1, k, bits, needed, idx)

\* Lines 67-71: the inner loop over the channels j..3 of one pixel.
RECURSIVE hide_channels(_, _, _, _, _, _)
hide_channels(pixel, j, k, bits, needed, idx) ==
    IF j > UsableChannels THEN [pixel |-> pixel, index |-> idx]
    ELSE IF idx < needed
         THEN hide_channels([pixel EXCEPT ![j] = set_low_bits(@, k, Slice(bits, idx, idx + k))],
                            j + 1, k, bits, needed, idx + k)
         ELSE hide_channels(pixel, j + 1, k, bits, needed, idx)

\* The k high bits of a channel value.
low_bits_high(v, k) == SubSeq(zfill(bin(v), 8), 1, k)
\* format(v, '08b')[8-k:8]: the k low bits of a channel value.
low_bits(v, k) == SubSeq(zfill(bin(v), 8), 8 - k + 1, 8)

\* Line 95: img_data.size // 4 if image.mode == "RGBA" else 3.
pixels_read(image) == IF image.mode = "RGBA" THEN array_size(image.data) \div 4 ELSE 3

\* Lines 94-98: the bits read from the first count pixels, pixel by pixel, channel
\* by channel, bit by bit.
read_bits(data, count, k) ==
    [x \in 1..(count * UsableChannels * k) |->
        LET slot == (x - 1) \div k
        IN  low_bits(data[(slot \div UsableChannels) + 1][(slot % UsableChannels) + 1], k)[((x - 1) % k) + 1]]

\* Lines 100-101, each block reduced modulo the key's modulus (pow(v, d, n) is
\* pow(v % n, d, n)).
parse_blocks(bits, modulus) ==
    LET split_bits == split_first(bits, SentinelBits)
    IN  [x \in 1..CeilDiv(Len(split_bits), BlockBits) |->
            int2mod(Slice(split_bits, (x - 1) * BlockBits, x * BlockBits), modulus)]

\* extract_message(png, seckey, bytes_len): the bits read and the outcome.
extract_message(image, key, k) ==
    IF pixels_read(image) > Len(image.data)
    THEN [bits |-> <<>>, outcome |-> Failed("IndexError")]
    ELSE LET bits == read_bits(image.data, pixels_read(image), k)
         IN  [bits |-> bits, outcome |-> decrypt(key, parse_blocks(bits, key[2]))]

NoOutcome == [status |-> "none", text |-> <<>>]
NoImage == [mode |-> "none", width |-> 0, height |-> 0, data |-> <<>>]

IdleArith == arg_a = 0 /\ arg_b = 0 /\ xgcd_out = <<0, 0, 0>> /\ gcd_out = 0
IdleKey ==
    /\ p = 0 /\ q = 0 /\ n = 0 /\ phi = 0 /\ e = 0
    /\ pubkey = NoKey /\ seckey = NoKey
IdleCipher == message = <<>> /\ ciphertext = <<>> /\ plaintext = NoOutcome
IdleHide ==
    /\ png = NoImage /\ bit_len = 0 /\ bit_string = <<>> /\ bits_needed = 0
    /\ avai_bits = 0 /\ img_data = <<>> /\ index = 0 /\ i = 0 /\ overflow = 0
    /\ output = NoImage
IdleExtract ==
    seckey_in = NoKey /\ bytes_len = 0 /\ secret_bits = <<>> /\ extracted = NoOutcome

(***************************************************************************)
(* xgcd and gcd applied to a pair of integers.                             *)
(***************************************************************************)
InitArith ==
    /\ pc = "arith_start"
    /\ arg_a \in -MaxArg..MaxArg
    /\ arg_b \in -MaxArg..MaxArg
    /\ xgcd_out = <<0, 0, 0>>
    /\ gcd_out = 0
    /\ IdleKey /\ IdleCipher /\ IdleHide /\ IdleExtract

EvalGcd ==
    /\ pc = "arith_start"
    /\ xgcd_out' = xgcd(arg_a, arg_b)
    /\ gcd_out' = gcd(arg_a, arg_b)
    /\ pc' = "arith_done"
    /\ UNCHANGED <<arg_a, arg_b, keyVars, cipherVars, hideVars, extractVars>>

NextArith == EvalGcd

SpecArith == InitArith /\ [][NextArith]_vars

(***************************************************************************)
(* Key generation, then the cipher on a text.                              *)
(***************************************************************************)
\* The prime pairs generate_primes hands to generate_keypair.
PrimePairs ==
    {<<2, 3>>, <<3, 2>>, <<2, 5>>, <<3, 5>>, <<5, 7>>, <<7, 11>>, <<11, 13>>,
     <<17, 19>>, <<61, 53>>}
\* The pairs of the fair specification.
SmallPrimePairs == {<<2, 3>>, <<3, 2>>, <<2, 5>>, <<3, 5>>, <<5, 3>>, <<5, 7>>, <<3, 7>>}

Phis(pairs) == {(pr[1] - 1) * (pr[2] - 1) : pr \in pairs}
\* Every value a draw of e can take, over all the pairs.
SampleValues(pairs) == UNION {randint(2, ph - 1) : ph \in Phis(pairs)}

InitKeyWith(pairs) ==
    /\ pc = "kg_start"
    /\ \E pr \in pairs : p = pr[1] /\ q = pr[2]
    /\ n = 0 /\ phi = 0 /\ e = 0
    /\ pubkey = NoKey /\ seckey = NoKey
    /\ IdleArith /\ IdleCipher /\ IdleHide /\ IdleExtract

InitKey == InitKeyWith(PrimePairs)
InitKeyFair == InitKeyWith(SmallPrimePairs)

\* Lines 168-171: n, phi and the first draw of e.
GenerateKeypairBegin ==
    /\ pc = "kg_start"
    /\ LET ph == (p - 1) * (q - 1)
       IN  /\ n' = p * q
           /\ phi' = ph
           /\ IF randint(2, ph - 1) = {}
              THEN pc' = "kg_ValueError" /\ e' = e
              ELSE pc' = "kg_loop" /\ e' \in randint(2, ph - 1)
    /\ UNCHANGED <<p, q, pubkey, seckey, arithVars, cipherVars, hideVars, extractVars>>

\* Line 173: v is drawn for e.
Resample(v) ==
    /\ pc = "kg_loop"
    /\ v \in randint(2, phi - 1)
    /\ e' = v
    /\ UNCHANGED <<pc, p, q, n, phi, pubkey, seckey, arithVars, cipherVars, hideVars, extractVars>>

\* Lines 172-173: e is not coprime to phi, and v is drawn.
Retry(v) == loop_continues(e, phi) /\ Resample(v)

\* Lines 172-173: one more turn of the loop.
RetryLoop ==
    /\ pc = "kg_loop"
    /\ loop_continues(e, phi)
    /\ \E v \in randint(2, phi - 1) : Resample(v)

\* Lines 172, 175-177: the loop exits, d is computed and the keys are returned.
GenerateKeypairReturn ==
    /\ pc = "kg_loop"
    /\ ~loop_continues(e, phi)
    /\ pubkey' = keypair(e, phi, n)[1]
    /\ seckey' = keypair(e, phi, n)[2]
    /\ pc' = "kg_done"
    /\ UNCHANGED <<p, q, n, phi, e, arithVars, cipherVars, hideVars, extractVars>>

\* encrypt(pubkey, text) for a text of the caller's.
Encrypt ==
    /\ pc = "kg_done"
    /\ \E t \in Texts :
          /\ message' = t
          /\ ciphertext' = encrypt(pubkey, t)
    /\ pc' = "encrypted"
    /\ UNCHANGED <<plaintext, keyVars, arithVars, hideVars, extractVars>>

\* decrypt(seckey, ciphertext).
Decrypt ==
    /\ pc = "encrypted"
    /\ plaintext' = decrypt(seckey, ciphertext)
    /\ pc' = "decrypted"
    /\ UNCHANGED <<message, ciphertext, keyVars, arithVars, hideVars, extractVars>>

NextKey ==
    \/ GenerateKeypairBegin
    \/ RetryLoop
    \/ GenerateKeypairReturn
    \/ Encrypt
    \/ Decrypt

SpecKey == InitKey /\ [][NextKey]_vars

\* Fair sampling: every value of the range is eventually drawn while the loop
\* runs, and the program does not stop while it has a step to take.
FairSpecKey ==
    /\ InitKeyFair
    /\ [][NextKey]_vars
    /\ \A v \in SampleValues(SmallPrimePairs) : WF_vars(Retry(v))
    /\ WF_vars(GenerateKeypairBegin)
    /\ WF_vars(GenerateKeypairReturn)

(***************************************************************************)
(* Properties of xgcd, gcd and generate_keypair.                           *)
(***************************************************************************)
\* C6: xgcd(a, b) returns (g, x, y) with a*x + b*y = g and g the value gcd(a, b)
\* returns; for b = 0 it returns (a, 1, 0).
C6_Bezout ==
    pc = "arith_done" =>
        /\ arg_a * xgcd_out[2] + arg_b * xgcd_out[3] = xgcd_out[1]
        /\ xgcd_out[1] = gcd_out
        /\ (arg_b = 0 => xgcd_out = <<arg_a, 1, 0>>)

C6_Witness ==
    /\ pc = "arith_done"
    /\ arg_a < 0 /\ arg_b > 0
    /\ PyMod(arg_a, arg_b) # 0
    /\ xgcd_out[2] # 0 /\ xgcd_out[3] # 0

\* No integer greater than 1 divides both x and y.
Coprime(x, y) == \A k \in 2..x : ~(x % k = 0 /\ y % k = 0)

KeysReturned == pubkey # NoKey

\* C4: the keys generate_keypair(p, q) returns are ((e, n), (d, n)) with n = p*q,
\* 1 < e < phi, gcd(e, phi) = 1, 0 <= d < phi and e*d mod phi = 1, where
\* phi = (p-1)*(q-1); for p = 61, q = 53, e = 17 the private exponent is 2753.
C4_KeyPair ==
    KeysReturned =>
        LET ee == pubkey[1]
            dd == seckey[1]
            ph == (p - 1) * (q - 1)
        IN  /\ pubkey[2] = p * q /\ seckey[2] = p * q
            /\ 1 < ee /\ ee < ph
            /\ Coprime(ee, ph)
            /\ 0 <= dd /\ dd < ph
            /\ (ee * dd) % ph = 1
            /\ (p = 61 /\ q = 53 /\ ee = 17 => dd = 2753)

C4_Witness == KeysReturned /\ p = 61 /\ q = 53 /\ pubkey = <<17, 3233>> /\ seckey = <<2753, 3233>>

\* C10 as stated: for every pair of distinct primes the sampling range [2, phi-1]
\* is non-empty and holds an e coprime to phi, so generate_keypair never fails to
\* draw and (under fair sampling) returns.
C10_Original ==
    /\ pc # "kg_ValueError"
    /\ pc \in {"kg_loop", "kg_done"} =>
          /\ randint(2, phi - 1) # {}
          /\ \E v \in randint(2, phi - 1) : Coprime(v, phi)

\* generate_keypair is entered with primes whose phi exceeds 2.
Sampleable == pc = "kg_start" /\ (p - 1) * (q - 1) > 2

\* C10, amended: for every pair of distinct primes with (p-1)*(q-1) > 2, the
\* sampling range [2, phi-1] is non-empty and holds an e coprime to phi, the loop
\* exits only with an e coprime to phi, and under fair sampling generate_keypair
\* eventually returns a key pair.
C10_Terminates ==
    /\ [](pc # "kg_start" /\ (p - 1) * (q - 1) > 2 =>
             /\ pc # "kg_ValueError"
             /\ randint(2, phi - 1) # {}
             /\ \E v \in randint(2, phi - 1) : Coprime(v, phi))
    /\ [](KeysReturned => Coprime(pubkey[1], phi) /\ pubkey[1] = e)
    /\ (Sampleable ~> KeysReturned)

C10_Witness ==
    /\ KeysReturned
    /\ p = 5 /\ q = 7
    /\ \E v \in randint(2, phi - 1) : loop_continues(v, phi)

(***************************************************************************)
(* Properties of the cipher.                                               *)
(***************************************************************************)
NoNul(text) == \A k \in 1..Len(text) : text[k] # 0

\* C2 as stated: for every prime pair, every key pair generate_keypair returns
\* and every text t, decrypt(priv, encrypt(pub, t)) = t.
C2_Original == pc = "decrypted" => plaintext = Ok(message)

\* C2, amended: for every pair of distinct primes with p*q >= 256, every key pair
\* generate_keypair returns and every text t holding no NUL character,
\* decrypt(priv, encrypt(pub, t)) = t.
C2_RoundTrip ==
    pc = "decrypted" /\ p * q >= 256 /\ NoNul(message) => plaintext = Ok(message)

C2_Witness ==
    /\ pc = "decrypted"
    /\ p * q >= 256
    /\ message = <<233, 65>>
    /\ ciphertext # text2ints(message, 1)
    /\ plaintext = Ok(message)

(***************************************************************************)
(* hide_message, then extract_message on the image it wrote.               *)
(***************************************************************************)
\* The draws (p, q, e) whose key pairs hide_message is given.
KeyDraws == {<<61, 53, 17>>, <<17, 19, 5>>}
\* A draw whose private key a caller may hold as well.
OtherDraws == {<<5, 53, 17>>}

\* Bit 1 of the 72 colour channel values of the chosen carrier, in raster order.
ChosenBits ==
    <<0, 0, 0, 0, 0, 0, 1, 0, 0, 1, 0, 1, 0, 0, 1, 1, 0, 0, 0, 0, 0, 0, 1, 1,
      0, 0, 0, 1, 1, 1, 0, 0, 0, 0, 0, 0, 0, 0, 0, 0, 0, 0, 0, 0, 0, 1, 0, 1,
      0, 0, 0, 0, 0, 0, 0, 0, 0, 0, 0, 0, 0, 0, 1, 1, 0, 0, 0, 1, 0, 1, 0, 1>>

\* A carrier's channel value: all ones, chosen bit by bit (253 or 255 in the
\* colour channels), or varying with the pixel and channel.
pixel_value(fill, k, j) ==
    IF fill = "ones" THEN 255
    ELSE IF fill = "chosen"
         THEN (IF j <= 3 THEN 253 + 2 * ChosenBits[3 * (k - 1) + j] ELSE 255)
    ELSE (37 * k + 101 * j + 90) % 256

Carrier(mode, width, height, fill) ==
    [mode |-> mode, width |-> width, height |-> height,
     data |-> [k \in 1..(width * height) |->
                  [j \in 1..(IF mode = "RGBA" THEN 4 ELSE 3) |-> pixel_value(fill, k, j)]]]

\* The carriers: 13 and 24 pixels, opaque and with alpha, and a 24-pixel carrier
\* with alpha whose second-lowest bits are chosen.
Carriers ==
    {Carrier(mode, size[1], size[2], fill) :
        mode \in {"RGB", "RGBA"}, size \in {<<13, 1>>, <<6, 4>>}, fill \in {"ones", "varied"}}
    \cup {Carrier("RGBA", 6, 4, "chosen")}

BitLens == 1..4

\* lcm(p-1, q-1).
Lambda == ((p - 1) * (q - 1)) \div gcd(p - 1, q - 1)
\* The private key generate_keypair returns for the draw (p, q, e).
private_key(dr) == keypair(dr[3], (dr[1] - 1) * (dr[2] - 1), dr[1] * dr[2])[2]
\* The keys a caller may hand to extract_message: the private key, two others
\* with the same modulus, and the private keys of the other draws.
UserKeys ==
    {seckey, <<1, seckey[2]>>, <<PyMod(seckey[1] + Lambda, phi), seckey[2]>>}
    \cup {private_key(dr) : dr \in KeyDraws \cup OtherDraws}

InitStego ==
    /\ pc = "hide_start"
    /\ \E dr \in KeyDraws :
          /\ p = dr[1] /\ q = dr[2] /\ e = dr[3]
          /\ n = dr[1] * dr[2]
          /\ phi = (dr[1] - 1) * (dr[2] - 1)
          /\ pubkey = keypair(dr[3], (dr[1] - 1) * (dr[2] - 1), dr[1] * dr[2])[1]
          /\ seckey = keypair(dr[3], (dr[1] - 1) * (dr[2] - 1), dr[1] * dr[2])[2]
    /\ message \in Texts
    /\ ciphertext = <<>> /\ plaintext = NoOutcome
    /\ png \in Carriers
    /\ bit_len \in BitLens
    /\ bit_string = <<>> /\ bits_needed = 0 /\ avai_bits = 0
    /\ img_data = <<>> /\ index = 0 /\ i = 0 /\ overflow = 0
    /\ output = NoImage
    /\ IdleArith /\ IdleExtract

\* Lines 41-63: the image is read, the bitstream built, the capacity checked.
HideBegin ==
    /\ pc = "hide_start"
    /\ LET data == png.data
           encrypted_message == encrypt(pubkey, message)
           bs == make_bit_string(encrypted_message)
           avail == available_bits(array_size(data), bit_len, channels_of(png))
       IN  /\ img_data' = data
           /\ ciphertext' = encrypted_message
           /\ bit_string' = bs
           /\ bits_needed' = Len(bs)
           /\ avai_bits' = avail
           /\ IF too_large(Len(bs), avail)
              THEN pc' = "hide_exit" /\ overflow' = Len(bs) - avail
              ELSE pc' = "hide_loop" /\ overflow' = overflow
    /\ index' = 0
    /\ i' = 0
    /\ UNCHANGED <<message, plaintext, png, bit_len, output, arithVars, keyVars, extractVars>>

\* Lines 64-71: one turn of the pixel loop.
HidePixel ==
    /\ pc = "hide_loop"
    /\ i < array_size(img_data)
    /\ index < bits_needed
    /\ IF i >= Len(img_data)
       THEN pc' = "hide_IndexError" /\ UNCHANGED <<img_data, index, i>>
       ELSE LET done == hide_channels(img_data[i + 1], 1, bit_len, bit_string, bits_needed, index)
            IN  /\ img_data' = [img_data EXCEPT ![i + 1] = done.pixel]
                /\ index' = done.index
                /\ i' = i + 1
                /\ pc' = pc
    /\ UNCHANGED <<png, bit_len, bit_string, bits_needed, avai_bits, overflow, output,
                   arithVars, keyVars, cipherVars, extractVars>>

\* Lines 64-66, 73-76: the loop ends and the image is written (to the output path,
\* which is not the carrier's).
HideSave ==
    /\ pc = "hide_loop"
    /\ i >= array_size(img_data) \/ index >= bits_needed
    /\ output' = fromarray(reshape(img_data, png.height, png.width), png.mode)
    /\ pc' = "hidden"
    /\ UNCHANGED <<png, bit_len, bit_string, bits_needed, avai_bits, img_data, index, i,
                   overflow, arithVars, keyVars, cipherVars, extractVars>>

\* extract_message on the written image, with a key and a bit count of the caller's.
Extract ==
    /\ pc = "hidden"
    /\ \E key \in UserKeys, k \in BitLens :
          LET got == extract_message(output, key, k)
          IN  /\ seckey_in' = key
              /\ bytes_len' = k
              /\ secret_bits' = got.bits
              /\ extracted' = got.outcome
    /\ pc' = "extracted"
    /\ UNCHANGED <<arithVars, keyVars, cipherVars, hideVars>>

NextStego == HideBegin \/ HidePixel \/ HideSave \/ Extract

SpecStego == InitStego /\ [][NextStego]_vars

(***************************************************************************)
(* Properties of hide_message and extract_message.                         *)
(***************************************************************************)
Embedded == pc \in {"hidden", "extracted"}

\* The bits a carrier of this many pixels can hold: k in each of 3 channels.
Capacity(image, k) == 3 * Len(image.data) * k

\* The low k bits of the first 3 channels of every pixel, in raster order, the most
\* significant of the k first.
LowBitsOf(data, k) ==
    [x \in 1..(3 * Len(data) * k) |->
        LET slot == (x - 1) \div k
            v == data[(slot \div 3) + 1][(slot % 3) + 1]
        IN  (v \div (2 ^ (k - 1 - ((x - 1) % k)))) % 2]

Prefix(s, len) == SubSeq(s, 1, len)

\* C1: extract_message on the image hide_message wrote, with the private key
\* generated with the public key and the same bitsPerChannel, returns the text
\* exactly, for 3-channel and 4-channel carriers alike.
C1_RoundTrip ==
    pc = "extracted" /\ seckey_in = seckey /\ bytes_len = bit_len => extracted = Ok(message)

\* C3: hide_message fails if and only if the bitstream (32 bits per encrypted block
\* plus the 40-bit sentinel) is longer than the carrier's capacity, and then reports
\* overflow = required - available, alters no pixel and writes no image; a 3-channel
\* carrier of P pixels with bitsPerChannel = 1 has capacity exactly 3P.
C3_Capacity ==
    pc # "hide_start" =>
        /\ bits_needed = 32 * Len(text2ints(message, find_blocksize(pubkey[2]))) + 40
        /\ (pc = "hide_exit") = (bits_needed > Capacity(png, bit_len))
        /\ pc = "hide_exit" =>
              /\ overflow = bits_needed - Capacity(png, bit_len)
              /\ img_data = png.data
              /\ output = NoImage
        /\ png.mode = "RGB" /\ bit_len = 1 => avai_bits = 3 * Len(png.data)
        /\ pc # "hide_exit" => overflow = 0

C3_Witness ==
    /\ pc = "hide_exit"
    /\ png.mode = "RGB" /\ bit_len = 1
    /\ bits_needed = 3 * Len(png.data) + 1
    /\ overflow = 1

BlocksFixed(text, pub, key) ==
    LET ints == text2ints(text, find_blocksize(pub[2]))
    IN  \A x \in 1..Len(ints) : pow(pow(ints[x], pub[1], pub[2]), key[1], key[2]) = ints[x]

\* The bits extract_message reads back with k bits per channel: the low k bits of
\* the first 3 channels of the pixels it visits, which are all the pixels of a
\* 4-channel image and the first 3 pixels of a 3-channel image.
ReadBack(image, k) ==
    Prefix(LowBitsOf(image.data, k),
           3 * k * (IF image.mode = "RGBA" THEN Len(image.data) ELSE 3))

\* The number of bits before the first sentinel pattern; all of them if there is none.
PayloadLen(bits) ==
    LET hits == {at \in 0..(Len(bits) - 40) : \A x \in 1..40 : bits[at + x] = SentinelBits[x]}
    IN  IF hits = {} THEN Len(bits) ELSE CHOOSE at \in hits : \A other \in hits : at <= other

\* The payload of bits, taken 32 bits at a time and decrypted with key, is the UTF-8
\* bytes of text followed by nothing or by a zero byte: each decrypted block fits
\* the key's block width and is written big-endian on that many bytes.
Recovered(bits, key, text) ==
    LET len == PayloadLen(bits)
        count == CeilDiv(len, 32)
        width == find_blocksize(key[2])
        vals == [g \in 1..count |->
                    pow(int2mod(SubSeq(bits, 32 * (g - 1) + 1, Min(32 * g, len)), key[2]),
                        key[1], key[2])]
        byte(x) == (vals[((x - 1) \div width) + 1] \div (256 ^ (width - 1 - ((x - 1) % width)))) % 256
        want == encode(text)
    IN  /\ \A g \in 1..count : vals[g] < 256 ^ width
        /\ count * width >= Len(want)
        /\ \A x \in 1..Len(want) : want[x] # 0 /\ byte(x) = want[x]
        /\ count * width > Len(want) => byte(Len(want) + 1) = 0

Mismatched == bytes_len # bit_len \/ seckey_in # seckey

C5_OtherExponent ==
    /\ pc = "extracted"
    /\ bytes_len = bit_len
    /\ seckey_in # seckey /\ seckey_in[2] = seckey[2]
    /\ message = <<65, 233>>
    /\ extracted = Ok(message)

\* The text comes back with the same bitsPerChannel and a key of another modulus.
C5_OtherModulus ==
    /\ pc = "extracted"
    /\ bytes_len = bit_len
    /\ seckey_in[2] # seckey[2]
    /\ message = <<65, 233>>
    /\ extracted = Ok(message)

\* C7: while hide_message embeds and after it, the cursor has advanced by
\* bitsPerChannel for each channel written, no pixel beyond the buffer is accessed,
\* and the low bitsPerChannel bits of the first 3 channels of the pixels, in raster
\* order, begin with the bits of the bitstream embedded so far: with all L of them
\* once hide_message is done, also when the last chunk is shorter than
\* bitsPerChannel.
C7_EmbeddedBits ==
    /\ pc # "hide_IndexError"
    /\ pc \in {"hide_loop", "hidden", "extracted"} =>
          LET sofar == Min(index, bits_needed)
          IN  /\ i <= Len(img_data)
              /\ index = bit_len * Min(3 * i, CeilDiv(bits_needed, bit_len))
              /\ Prefix(LowBitsOf(img_data, bit_len), sofar) = Prefix(bit_string, sofar)
    /\ Embedded =>
          /\ index >= bits_needed
          /\ Prefix(LowBitsOf(output.data, bit_len), bits_needed) = bit_string

C7_Witness ==
    /\ pc = "hidden"
    /\ bit_len = 3
    /\ bits_needed % 3 = 2
    /\ index > bits_needed
    /\ png.data[1][1] = 255

\* C8: extract_message reads the low bitsPerChannel bits of the first 3 channels of
\* every pixel, in the embedder's order: 3 * pixelCount * bitsPerChannel bits, for
\* 3-channel and 4-channel images alike.
C8_Traversal ==
    pc = "extracted" =>
        /\ Len(secret_bits) = 3 * Len(output.data) * bytes_len
        /\ secret_bits = LowBitsOf(output.data, bytes_len)

\* C9: a successful hide_message changes nothing but the low bitsPerChannel bits of
\* the first 3 channels of the first ceil(L / (3 * bitsPerChannel)) pixels: the
\* upper bits of every channel, the alpha channel, the later pixels, the dimensions
\* and the channel layout are unchanged.
C9_Frame ==
    Embedded =>
        LET touched == CeilDiv(bits_needed, 3 * bit_len)
        IN  /\ output.mode = png.mode
            /\ output.width = png.width
            /\ output.height = png.height
            /\ Len(output.data) = Len(png.data)
            /\ \A x \in 1..Len(png.data) :
                  /\ Len(output.data[x]) = Len(png.data[x])
                  /\ \A j \in 1..Len(png.data[x]) :
                        /\ output.data[x][j] \div (2 ^ bit_len) = png.data[x][j] \div (2 ^ bit_len)
                        /\ j > 3 => output.data[x][j] = png.data[x][j]
                  /\ x > touched => output.data[x] = png.data[x]

C9_Witness ==
    /\ pc = "hidden"
    /\ png.mode = "RGBA"
    /\ bits_needed = Capacity(png, bit_len)
    /\ output.data[Len(png.data)] # png.data[Len(png.data)]
    /\ output.data[Len(png.data)][4] = png.data[Len(png.data)][4]
====
